---------------------------- MODULE Spec2Model ----------------------------
(***************************************************************************)
(* Fleet command-execution engine of pytoys (src/ssh_run.py): the          *)
(* orchestrator `run`, the per-device pipeline `run_commands`, the         *)
(* connection helper `connect_ssh` and the executor `execute_ssh_command`. *)
(* src/ssh_command_runner.py is an older variant of the same pipeline; the *)
(* model follows src/ssh_run.py.                                           *)
(***************************************************************************)
EXTENDS Integers, Sequences, FiniteSets, TLC

(***************************************************************************)
(* Bounds of the model.                                                    *)
(***************************************************************************)
\* Largest fleet explored (the device list of a run has 0..MaxDevices entries).
MaxDevices == 3
\* Longest command sequence explored.
MaxCmds == 3
\* Largest number of execution units (devices x commands) of an explored run.
MaxUnits == 4
\* The fixed maximum of the worker pool.  The source fixes it at 10
\* (src/ssh_run.py:321); the model scales it down so that a fleet larger than
\* the pool can be explored.
WorkerCap == 2
\* Largest number of faults the environment injects in one run: a fault is a
\* connect_ssh call whose first ssh.connect attempt fails (its later attempts
\* may fail too), a command that completes with a non-empty stderr, a command
\* that times out, or a command whose execution raises.
MaxFaults == 2

(***************************************************************************)
(* Program constants.                                                      *)
(***************************************************************************)
\* connect_ssh(..., retries=3)
Retries == 3

Min(a, b) == IF a <= b THEN a ELSE b

(***************************************************************************)
(* A command entry of the configuration: cmd.get("command") is truthy or   *)
(* not, cmd.get("sleep", 0) > 0 or not.  Timeout values and texts are      *)
(* abstracted: the executor's result is an input of the pipeline.          *)
(***************************************************************************)
CommandKinds == [command : BOOLEAN, sleep : BOOLEAN]

RECURSIVE SeqsUpTo(_, _)
SeqsUpTo(S, n) ==
    IF n = 0 THEN {<<>>}
    ELSE LET shorter == SeqsUpTo(S, n - 1)
         IN  shorter \cup {Append(s, x) : s \in {t \in shorter : Len(t) = n - 1}, x \in S}

\* The configurations explored: a device count and a command sequence.
Configs ==
    {c \in [n : 0..MaxDevices, cmds : SeqsUpTo(CommandKinds, MaxCmds)] :
        c.n * Len(c.cmds) <= MaxUnits}

VARIABLES
    devices,    \* config_data["devices"], as the set 1..n in list order
    commands,   \* config_data["commands"]
    orch,       \* where `run` is: "init", "submit", "collect", "returned", "crashed"
    pc,         \* per device: where its future / run_commands is
    collected,  \* futures already yielded by as_completed and handled
    idx,        \* per device: index (1-based) of the loop's current cmd
    attempt,    \* per device: `attempt` of the running connect_ssh call
    ssh,        \* per device: the local `ssh` (0 = None, else a session id)
    nsess,      \* per device: sessions connected so far
    open,       \* per device: ids of sessions connected and not closed
    chan,       \* per device: channels of the last exec_command
    log,        \* per device: the entries of its log file, in order
    completed,  \* task.completed of the progress display
    advanced,   \* per device: how much of `completed` came from this device
    issued,     \* per device: <<index, session>> of every exec_command call
    slept,      \* per device: indexes whose time.sleep(sleep_time) ran
    connects,   \* per device: calls of ssh.connect so far
    inputs,     \* per device: what the remote side answered, in order
    faults,     \* faults injected so far (environment, bounds the exploration)
    backoffs,   \* per device: calls of time.sleep(5) in connect_ssh so far
    exe         \* one call of execute_ssh_command, followed poll by poll

vars == <<devices, commands, orch, pc, collected, idx, attempt, ssh, nsess, open,
          chan, log, completed, advanced, issued, slept,
                   connects, inputs, faults, backoffs, exe>>

\* The executor call that the poll-level specification follows has not begun.
\* The pipeline specification takes the outcome of a call as an input and
\* leaves `exe` in this state.
NotExecuting == [phase |-> "idle"]

\* total_tasks = len(devices) * len(commands)
TotalTasks == Cardinality(devices) * Len(commands)

\* Mutant of MaxWorkers: one worker per device, whatever the fleet size.
MaxWorkersUncapped(n) == n

\* max_workers = min(10, num_devices)
MaxWorkers(n) == Min(WorkerCap, n)

\* A worker thread is busy with the device's run_commands call.
RunningPcs == {"connect", "loop", "exec", "reconnect"}
\* run_commands has returned or raised: the future is finished.
FinishedPcs == {"completed", "connfailed", "reconnfailed", "raised"}

Running == {d \in devices : pc[d] \in RunningPcs}
Finished == {d \in devices : pc[d] \in FinishedPcs}

Init ==
    /\ \E c \in Configs : devices = 1..c.n /\ commands = c.cmds
    /\ orch = "init"
    /\ pc = [d \in devices |-> "unsubmitted"]
    /\ collected = {}
    /\ idx = [d \in devices |-> 1]
    /\ attempt = [d \in devices |-> 0]
    /\ ssh = [d \in devices |-> 0]
    /\ nsess = [d \in devices |-> 0]
    /\ open = [d \in devices |-> {}]
    /\ chan = [d \in devices |-> "none"]
    /\ log = [d \in devices |-> <<>>]
    /\ completed = 0
    /\ advanced = [d \in devices |-> 0]
    /\ issued = [d \in devices |-> <<>>]
    /\ slept = [d \in devices |-> {}]
    /\ connects = [d \in devices |-> 0]
    /\ inputs = [d \in devices |-> <<>>]
    /\ faults = 0
    /\ backoffs = [d \in devices |-> 0]
    /\ exe = NotExecuting

(***************************************************************************)
(* The orchestrator `run`.                                                 *)
(***************************************************************************)
\* ThreadPoolExecutor(max_workers=max_workers): raises ValueError when
\* max_workers <= 0, before any submit.
CreatePool ==
    /\ orch = "init"
    /\ orch' = IF MaxWorkers(Cardinality(devices)) <= 0 THEN "crashed" ELSE "submit"
    /\ UNCHANGED <<exe, backoffs, devices, commands, pc, collected, idx, attempt, ssh, nsess, open,
                   chan, log, completed, advanced, issued, slept,
                   connects, inputs, faults>>

\* executor.submit(run_commands, device, ...) for device in devices, in order.
Submit(d) ==
    /\ orch = "submit"
    /\ pc[d] = "unsubmitted"
    /\ \A e \in devices : e < d => pc[e] # "unsubmitted"
    /\ pc' = [pc EXCEPT ![d] = "queued"]
    /\ orch' = IF \A e \in devices \ {d} : pc[e] # "unsubmitted" THEN "collect" ELSE orch
    /\ UNCHANGED <<exe, backoffs, devices, commands, collected, idx, attempt, ssh, nsess, open,
                   chan, log, completed, advanced, issued, slept,
                   connects, inputs, faults>>

\* Mutant of WorkerFree: a worker that finished a pipeline is not given back
\* to the pool.
WorkerFreeLeaky ==
    Cardinality(Running \cup Finished) < MaxWorkers(Cardinality(devices))

\* A free worker of the pool takes the oldest queued work item.
WorkerFree == Cardinality(Running) < MaxWorkers(Cardinality(devices))

\* Mutant of Start: the log file name lacks the device name, so that opening
\* it with mode "w" truncates the one file every device writes to.
StartSharedLog(d) ==
    /\ pc[d] = "queued"
    /\ \A e \in devices : e < d => pc[e] # "queued"
    /\ WorkerFree
    /\ pc' = [pc EXCEPT ![d] = "connect"]
    /\ attempt' = [attempt EXCEPT ![d] = 0]
    /\ log' = [e \in devices |-> <<>>]
    /\ UNCHANGED <<exe, backoffs, devices, commands, orch, collected, idx, ssh, nsess, open,
                   chan, completed, advanced, issued, slept, connects, inputs, faults>>

\* run_commands starts: setup_logger(clear_logs=True), then connect_ssh.
Start(d) ==
    /\ pc[d] = "queued"
    /\ \A e \in devices : e < d => pc[e] # "queued"
    /\ WorkerFree
    /\ pc' = [pc EXCEPT ![d] = "connect"]
    /\ attempt' = [attempt EXCEPT ![d] = 0]
    /\ log' = [log EXCEPT ![d] = <<>>]
    /\ UNCHANGED <<exe, backoffs, devices, commands, orch, collected, idx, ssh, nsess, open,
                   chan, completed, advanced, issued, slept,
                   connects, inputs, faults>>


(***************************************************************************)
(* The device pipeline `run_commands` and its helpers.                     *)
(***************************************************************************)
\* The environment may inject one more fault.
FaultAllowed == faults < MaxFaults

\* logger.info / logger.error: one entry appended to the device's log file.
\* An entry is <<kind, index>>, index 0 for entries outside the loop.
Logged(lg, kind, i) == Append(lg, <<kind, i>>)

\* progress.update(task_id, advance=k), on behalf of device d.
ProgressUpdate(d, k) ==
    /\ completed' = completed + k
    /\ advanced' = [advanced EXCEPT ![d] = @ + k]

\* Mutant of NextIndex: the loop stays on the command it just ran.
NextIndexRetry(i) == i

\* `for cmd in commands`: the index of the iteration after iteration i.
NextIndex(i) == i + 1

\* Mutant of EndOfIteration: progress.update is indented into the
\* `if sleep_time > 0:` block.
EndOfIterationAdvanceInSleep(d, lg) ==
    /\ log' = [log EXCEPT ![d] =
                  IF commands[idx[d]].sleep THEN Logged(lg, "Sleeping", idx[d]) ELSE lg]
    /\ slept' = [slept EXCEPT ![d] =
                  IF commands[idx[d]].sleep THEN @ \cup {idx[d]} ELSE @]
    /\ ProgressUpdate(d, IF commands[idx[d]].sleep THEN 1 ELSE 0)
    /\ idx' = [idx EXCEPT ![d] = NextIndex(@)]

\* Lines 150-154 of an iteration that was not left by `break`: the sleep, when
\* sleep_time > 0, then progress.update(advance=1), then the next iteration.
\* lg is the log as the first half of the iteration left it.
EndOfIteration(d, lg) ==
    /\ log' = [log EXCEPT ![d] =
                  IF commands[idx[d]].sleep THEN Logged(lg, "Sleeping", idx[d]) ELSE lg]
    /\ slept' = [slept EXCEPT ![d] =
                  IF commands[idx[d]].sleep THEN @ \cup {idx[d]} ELSE @]
    /\ ProgressUpdate(d, 1)
    /\ idx' = [idx EXCEPT ![d] = NextIndex(@)]

\* Mutant of ConnectFailedAdvance: the early return forgets the progress.
ConnectFailedNoAdvance == 0 * Len(commands)

\* What run_commands advances when the initial connect_ssh returned None.
ConnectFailedAdvance == Len(commands)

\* What run_commands advances when the reconnect returned None: it leaves the
\* loop by `break`, before line 154.
ReconnectFailedAdvance == 0

\* Mutant of AfterReconnectFailed: the `break` is missing, the loop goes on.
ContinueAfterReconnectFailed == "loop"

\* The program point after connect_ssh returned None to the reconnect branch:
\* `break`, then `if ssh:` is false, and run_commands returns.
AfterReconnectFailed == "reconnfailed"

\* Mutant of LastAttempt: one attempt too many.
LastAttemptLate(a) == a >= Retries

\* connect_ssh gives up when range(retries) is exhausted.
LastAttempt(a) == a + 1 >= Retries

\* One iteration of connect_ssh's loop: ssh.connect succeeds (ok) or raises;
\* when it raised, the error is logged and time.sleep(5) runs (line 111 is
\* in the loop body, after the try block), also in the last iteration.
\* connect_ssh is called at line 123 (pc "connect") and at line 146 (pc
\* "reconnect"); what follows its return is part of the same step.
ConnectAttempt(d, ok) ==
    /\ pc[d] \in {"connect", "reconnect"}
    /\ ok \/ attempt[d] > 0 \/ FaultAllowed
    /\ IF ok
       THEN /\ nsess' = [nsess EXCEPT ![d] = @ + 1]
            /\ ssh' = [ssh EXCEPT ![d] = nsess[d] + 1]
            /\ open' = [open EXCEPT ![d] = @ \cup {nsess[d] + 1}]
            /\ attempt' = [attempt EXCEPT ![d] = 0]
            /\ pc' = [pc EXCEPT ![d] = "loop"]
            /\ IF pc[d] = "connect"
               THEN /\ log' = [log EXCEPT ![d] = Logged(@, "Connected", 0)]
                    /\ UNCHANGED <<idx, completed, advanced, slept>>
               ELSE EndOfIteration(d, Logged(log[d], "Connected", 0))
       ELSE /\ UNCHANGED <<nsess, open, idx, slept>>
            /\ IF ~LastAttempt(attempt[d])
               THEN /\ attempt' = [attempt EXCEPT ![d] = @ + 1]
                    /\ log' = [log EXCEPT ![d] = Logged(@, "ConnectError", 0)]
                    /\ UNCHANGED <<pc, ssh, completed, advanced>>
               ELSE /\ attempt' = [attempt EXCEPT ![d] = 0]
                    /\ ssh' = [ssh EXCEPT ![d] = 0]
                    /\ IF pc[d] = "connect"
                       THEN /\ log' = [log EXCEPT ![d] =
                                 Logged(Logged(@, "ConnectError", 0), "FailedToConnect", 0)]
                            /\ ProgressUpdate(d, ConnectFailedAdvance)
                            /\ pc' = [pc EXCEPT ![d] = "connfailed"]
                       ELSE /\ log' = [log EXCEPT ![d] =
                                 Logged(Logged(@, "ConnectError", 0), "FailedToReconnect", 0)]
                            /\ ProgressUpdate(d, ReconnectFailedAdvance)
                            /\ pc' = [pc EXCEPT ![d] = AfterReconnectFailed]
    /\ connects' = [connects EXCEPT ![d] = @ + 1]
    /\ inputs' = [inputs EXCEPT ![d] = Append(@, IF ok THEN "connected" ELSE "refused")]
    /\ faults' = IF ok \/ attempt[d] > 0 THEN faults ELSE faults + 1
    /\ backoffs' = [backoffs EXCEPT ![d] = IF ok THEN @ ELSE @ + 1]
    /\ UNCHANGED <<exe, devices, commands, orch, collected, chan, issued>>

\* Mutant of BeginIteration: a unit without command text still sends an
\* (empty) command over the session.
BeginIterationSendsEmpty(d) ==
    /\ pc[d] = "loop"
    /\ idx[d] <= Len(commands)
    /\ IF commands[idx[d]].command
       THEN /\ log' = [log EXCEPT ![d] = Logged(@, "Executing", idx[d])]
            /\ issued' = [issued EXCEPT ![d] = Append(@, <<idx[d], ssh[d]>>)]
            /\ chan' = [chan EXCEPT ![d] = "open"]
            /\ pc' = [pc EXCEPT ![d] = "exec"]
            /\ UNCHANGED <<idx, completed, advanced, slept>>
       ELSE /\ EndOfIteration(d, log[d])
            /\ issued' = [issued EXCEPT ![d] = Append(@, <<idx[d], ssh[d]>>)]
            /\ chan' = [chan EXCEPT ![d] = "open"]
            /\ UNCHANGED pc
    /\ UNCHANGED <<exe, backoffs, devices, commands, orch, collected, attempt, ssh, nsess, open,
                   connects, inputs, faults>>

\* The first half of a loop iteration.  With a command text: the "Executing"
\* entry and ssh.exec_command, whose channels open.  Without: nothing, and the
\* iteration goes on to its end.
BeginIteration(d) ==
    /\ pc[d] = "loop"
    /\ idx[d] <= Len(commands)
    /\ IF commands[idx[d]].command
       THEN /\ log' = [log EXCEPT ![d] = Logged(@, "Executing", idx[d])]
            /\ issued' = [issued EXCEPT ![d] = Append(@, <<idx[d], ssh[d]>>)]
            /\ chan' = [chan EXCEPT ![d] = "open"]
            /\ pc' = [pc EXCEPT ![d] = "exec"]
            /\ UNCHANGED <<idx, completed, advanced, slept>>
       ELSE /\ EndOfIteration(d, log[d])
            /\ UNCHANGED <<pc, issued, chan>>
    /\ UNCHANGED <<exe, backoffs, devices, commands, orch, collected, attempt, ssh, nsess, open,
                   connects, inputs, faults>>

\* Mutant of CommandCompletes: a non-empty stderr ends the pipeline like a
\* failed reconnect does.
CommandCompletesErrFatal(d, err) ==
    /\ pc[d] = "exec"
    /\ ~err \/ FaultAllowed
    /\ inputs' = [inputs EXCEPT ![d] = Append(@, IF err THEN "stderr" ELSE "stdout")]
    /\ faults' = IF err THEN faults + 1 ELSE faults
    /\ IF err
       THEN /\ log' = [log EXCEPT ![d] = Logged(@, "Error", idx[d])]
            /\ pc' = [pc EXCEPT ![d] = "reconnfailed"]
            /\ UNCHANGED <<idx, completed, advanced, slept>>
       ELSE /\ EndOfIteration(d, Logged(log[d], "Output", idx[d]))
            /\ pc' = [pc EXCEPT ![d] = "loop"]
    /\ UNCHANGED <<exe, backoffs, devices, commands, orch, collected, attempt, ssh, nsess, open,
                   chan, issued, connects>>

\* execute_ssh_command returns (output, error): exit_status_ready() was true
\* at a poll.  stderr non-empty (err) or not.
CommandCompletes(d, err) ==
    /\ pc[d] = "exec"
    /\ ~err \/ FaultAllowed
    /\ inputs' = [inputs EXCEPT ![d] = Append(@, IF err THEN "stderr" ELSE "stdout")]
    /\ faults' = IF err THEN faults + 1 ELSE faults
    /\ EndOfIteration(d, Logged(log[d], IF err THEN "Error" ELSE "Output", idx[d]))
    /\ pc' = [pc EXCEPT ![d] = "loop"]
    /\ UNCHANGED <<exe, backoffs, devices, commands, orch, collected, attempt, ssh, nsess, open,
                   chan, issued, connects>>

\* Mutant of CommandTimesOut: the handler only logs the timeout and lets the
\* loop go on, without closing the session and without reconnecting.
CommandTimesOutNoReconnect(d) ==
    /\ pc[d] = "exec"
    /\ FaultAllowed
    /\ chan' = [chan EXCEPT ![d] = "closed"]
    /\ EndOfIteration(d, Logged(log[d], "Timeout", idx[d]))
    /\ pc' = [pc EXCEPT ![d] = "loop"]
    /\ inputs' = [inputs EXCEPT ![d] = Append(@, "timeout")]
    /\ faults' = faults + 1
    /\ UNCHANGED <<exe, backoffs, devices, commands, orch, collected, attempt, ssh, nsess, open,
                   issued, connects>>

\* Mutant of CommandTimesOut: the handler already advances the progress for
\* the command that timed out.
CommandTimesOutAdvances(d) ==
    /\ pc[d] = "exec"
    /\ FaultAllowed
    /\ chan' = [chan EXCEPT ![d] = "closed"]
    /\ log' = [log EXCEPT ![d] =
                  Logged(Logged(@, "Timeout", idx[d]), "Reconnecting", idx[d])]
    /\ open' = [open EXCEPT ![d] = @ \ {ssh[d]}]
    /\ attempt' = [attempt EXCEPT ![d] = 0]
    /\ pc' = [pc EXCEPT ![d] = "reconnect"]
    /\ inputs' = [inputs EXCEPT ![d] = Append(@, "timeout")]
    /\ faults' = faults + 1
    /\ ProgressUpdate(d, 1)
    /\ UNCHANGED <<exe, backoffs, devices, commands, orch, collected, idx, ssh, nsess,
                   issued, slept, connects>>

\* Mutant of CommandTimesOut: the handler reconnects without closing the
\* session whose command timed out.
CommandTimesOutKeepsSession(d) ==
    /\ pc[d] = "exec"
    /\ FaultAllowed
    /\ chan' = [chan EXCEPT ![d] = "closed"]
    /\ log' = [log EXCEPT ![d] =
                  Logged(Logged(@, "Timeout", idx[d]), "Reconnecting", idx[d])]
    /\ attempt' = [attempt EXCEPT ![d] = 0]
    /\ pc' = [pc EXCEPT ![d] = "reconnect"]
    /\ inputs' = [inputs EXCEPT ![d] = Append(@, "timeout")]
    /\ faults' = faults + 1
    /\ UNCHANGED <<exe, backoffs, devices, commands, orch, collected, idx, ssh, nsess, open,
                   completed, advanced, issued, slept, connects>>

\* execute_ssh_command raises TimeoutError after closing the three channels;
\* the handler logs it, closes the session, logs "Reconnecting" and calls
\* connect_ssh.
CommandTimesOut(d) ==
    /\ pc[d] = "exec"
    /\ FaultAllowed
    /\ chan' = [chan EXCEPT ![d] = "closed"]
    /\ log' = [log EXCEPT ![d] =
                  Logged(Logged(@, "Timeout", idx[d]), "Reconnecting", idx[d])]
    /\ open' = [open EXCEPT ![d] = @ \ {ssh[d]}]
    /\ attempt' = [attempt EXCEPT ![d] = 0]
    /\ pc' = [pc EXCEPT ![d] = "reconnect"]
    /\ inputs' = [inputs EXCEPT ![d] = Append(@, "timeout")]
    /\ faults' = faults + 1
    /\ UNCHANGED <<exe, backoffs, devices, commands, orch, collected, idx, ssh, nsess, completed,
                   advanced, issued, slept, connects>>

\* execute_ssh_command raises anything but TimeoutError (exec_command on a
\* dropped transport, decode() of output that is not UTF-8): run_commands has
\* no handler and no finally, the exception ends it and is kept by the future.
CommandRaises(d) ==
    /\ pc[d] = "exec"
    /\ FaultAllowed
    /\ pc' = [pc EXCEPT ![d] = "raised"]
    /\ inputs' = [inputs EXCEPT ![d] = Append(@, "exception")]
    /\ faults' = faults + 1
    /\ UNCHANGED <<exe, backoffs, devices, commands, orch, collected, idx, attempt, ssh, nsess,
                   open, chan, log, completed, advanced, issued, slept, connects>>

\* Mutant of EndOfCommands: run_commands returns without closing the session.
EndOfCommandsNoClose(d) ==
    /\ pc[d] = "loop"
    /\ idx[d] > Len(commands)
    /\ pc' = [pc EXCEPT ![d] = "completed"]
    /\ UNCHANGED <<exe, backoffs, devices, commands, orch, collected, idx, attempt, ssh, nsess,
                   open, chan, log, completed, advanced, issued, slept,
                   connects, inputs, faults>>

\* The loop is exhausted: `if ssh: ssh.close()`, and run_commands returns.
EndOfCommands(d) ==
    /\ pc[d] = "loop"
    /\ idx[d] > Len(commands)
    /\ open' = [open EXCEPT ![d] = @ \ {ssh[d]}]
    /\ pc' = [pc EXCEPT ![d] = "completed"]
    /\ UNCHANGED <<exe, backoffs, devices, commands, orch, collected, idx, attempt, ssh, nsess,
                   chan, log, completed, advanced, issued, slept,
                   connects, inputs, faults>>

(***************************************************************************)
(* The orchestrator's as_completed loop and its return.                    *)
(***************************************************************************)
\* What the `except Exception` branch of the as_completed loop advances.
ExceptionAdvance == Len(commands)

\* as_completed yields a finished future whose future.result() re-raises what
\* run_commands raised: the handler logs it and accounts the device.  (For a
\* future that returned, the loop body changes nothing: a stuttering step.)
Collect(d) ==
    /\ orch = "collect"
    /\ pc[d] = "raised"
    /\ d \notin collected
    /\ collected' = collected \cup {d}
    /\ log' = [log EXCEPT ![d] = Logged(@, "ErrorOn", 0)]
    /\ ProgressUpdate(d, ExceptionAdvance)
    /\ UNCHANGED <<exe, backoffs, devices, commands, orch, pc, idx, attempt, ssh, nsess, open,
                   chan, issued, slept, connects, inputs, faults>>

\* Mutant of Return: `run` returns after the first future that as_completed
\* yields, without waiting for the others.
ReturnAfterFirst ==
    /\ orch = "collect"
    /\ Finished # {}
    /\ \A d \in devices : pc[d] = "raised" => d \in collected
    /\ orch' = "returned"
    /\ UNCHANGED <<exe, backoffs, devices, commands, pc, collected, idx, attempt, ssh, nsess, open,
                   chan, log, completed, advanced, issued, slept,
                   connects, inputs, faults>>

\* as_completed has yielded every future, each one finished, and the handler
\* ran for those that raised: the executor's and the display's `with` blocks
\* exit and `run` returns.
Return ==
    /\ orch = "collect"
    /\ Finished = devices
    /\ \A d \in devices : pc[d] = "raised" => d \in collected
    /\ orch' = "returned"
    /\ UNCHANGED <<exe, backoffs, devices, commands, pc, collected, idx, attempt, ssh, nsess, open,
                   chan, log, completed, advanced, issued, slept,
                   connects, inputs, faults>>

Next ==
    \/ CreatePool
    \/ \E d \in devices : Submit(d)
    \/ \E d \in devices : Start(d)
    \/ \E d \in devices : \E ok \in BOOLEAN : ConnectAttempt(d, ok)
    \/ \E d \in devices : BeginIteration(d)
    \/ \E d \in devices : \E err \in BOOLEAN : CommandCompletes(d, err)
    \/ \E d \in devices : CommandTimesOut(d)
    \/ \E d \in devices : CommandRaises(d)
    \/ \E d \in devices : EndOfCommands(d)
    \/ \E d \in devices : Collect(d)
    \/ Return

Spec == Init /\ [][Next]_vars

(***************************************************************************)
(* Scheduling.  The operating system runs every thread that can take a      *)
(* step: the main thread of `run` and each worker thread.  Every            *)
(* ssh.connect returns (timeout=10) and the poll loop of                    *)
(* execute_ssh_command ends by completion, by its deadline or by an         *)
(* exception, so a step of a pipeline that is enabled is eventually taken.  *)
(***************************************************************************)
OrchStep ==
    \/ CreatePool
    \/ \E d \in devices : Submit(d)
    \/ \E d \in devices : Collect(d)
    \/ Return

DeviceStep(d) ==
    /\ d \in devices
    /\ \/ Start(d)
       \/ \E ok \in BOOLEAN : ConnectAttempt(d, ok)
       \/ BeginIteration(d)
       \/ \E err \in BOOLEAN : CommandCompletes(d, err)
       \/ CommandTimesOut(d)
       \/ CommandRaises(d)
       \/ EndOfCommands(d)

FairSpec ==
    /\ Spec
    /\ WF_vars(OrchStep)
    /\ \A d \in 1..MaxDevices : WF_vars(DeviceStep(d))

(***************************************************************************)
(* The executor `execute_ssh_command`, poll by poll.  PollSpec follows one  *)
(* call: its inputs are the timeout, what the remote command writes to its  *)
(* stdout and stderr, and the moment the remote command exits (if ever).    *)
(* Time is counted in seconds since start_time; it passes in time.sleep.    *)
(***************************************************************************)
\* Largest timeout explored, in seconds.
MaxTimeout == 2
\* Longest time one time.sleep(1) takes, in seconds (a sleep may overshoot).
MaxSleep == 2
\* time.sleep(1): the poll interval.
PollInterval == 1

\* What a channel delivers to read(): nothing, bytes that are valid UTF-8,
\* or bytes that are not.
Captures == {"empty", "utf8", "other"}

\* bytes.decode(): strict UTF-8, raises UnicodeDecodeError on other bytes.
Decodes(b) == b \in {"empty", "utf8"}
Decode(b) == IF b = "empty" THEN "" ELSE "text"

\* The variables of the pipeline specification.
runvars == <<devices, commands, orch, pc, collected, idx, attempt, ssh, nsess, open,
             chan, log, completed, advanced, issued, slept, connects, inputs, faults,
             backoffs>>

\* A call about to begin: no fleet is running, the inputs are chosen.
PollInit ==
    /\ devices = {}
    /\ commands = <<>>
    /\ orch = "init"
    /\ pc = <<>> /\ idx = <<>> /\ attempt = <<>> /\ ssh = <<>> /\ nsess = <<>>
    /\ open = <<>> /\ chan = <<>> /\ log = <<>> /\ advanced = <<>>
    /\ issued = <<>> /\ slept = <<>> /\ connects = <<>> /\ inputs = <<>>
    /\ backoffs = <<>>
    /\ collected = {}
    /\ completed = 0
    /\ faults = 0
    /\ \E t \in 0..MaxTimeout : \E o \in Captures : \E e \in Captures :
          exe = [phase |-> "idle", timeout |-> t, out |-> o, err |-> e,
                 ready |-> FALSE, elapsed |-> 0, polls |-> 0,
                 stdin |-> "none", stdout |-> "none", stderr |-> "none",
                 result |-> <<>>]

\* stdin, stdout, stderr = ssh.exec_command(command); start_time = time.time().
ExecCommand ==
    /\ exe.phase = "idle"
    /\ exe # NotExecuting
    /\ exe' = [exe EXCEPT !.phase = "poll", !.stdin = "open", !.stdout = "open",
                          !.stderr = "open", !.elapsed = 0]
    /\ UNCHANGED runvars

\* The remote command exits: from now on exit_status_ready() is true.
RemoteExits ==
    /\ exe.phase = "poll"
    /\ ~exe.ready
    /\ exe' = [exe EXCEPT !.ready = TRUE]
    /\ UNCHANGED runvars

\* A poll that finds exit_status_ready(): read and decode both captures,
\* break, return (output, error).  decode() raises on bytes that are not
\* UTF-8, and the exception leaves the function.
PollReady ==
    /\ exe.phase = "poll"
    /\ exe.ready
    /\ IF Decodes(exe.out) /\ Decodes(exe.err)
       THEN exe' = [exe EXCEPT !.phase = "returned", !.polls = @ + 1,
                               !.result = <<Decode(exe.out), Decode(exe.err)>>]
       ELSE exe' = [exe EXCEPT !.phase = "raised", !.polls = @ + 1,
                               !.result = <<"UnicodeDecodeError">>]
    /\ UNCHANGED runvars

\* A poll that finds the command running and the deadline passed: the three
\* channels are closed, then TimeoutError is raised.
PollDeadline ==
    /\ exe.phase = "poll"
    /\ ~exe.ready
    /\ exe.elapsed > exe.timeout
    /\ exe' = [exe EXCEPT !.phase = "timedout", !.polls = @ + 1,
                          !.stdin = "closed", !.stdout = "closed",
                          !.stderr = "closed", !.result = <<"TimeoutError">>]
    /\ UNCHANGED runvars

\* A poll that finds the command running within the deadline: time.sleep(1).
PollSleep ==
    /\ exe.phase = "poll"
    /\ ~exe.ready
    /\ ~(exe.elapsed > exe.timeout)
    /\ \E s \in PollInterval..MaxSleep :
          exe' = [exe EXCEPT !.elapsed = @ + s, !.polls = @ + 1]
    /\ UNCHANGED runvars

PollNext ==
    \/ ExecCommand
    \/ RemoteExits
    \/ PollReady
    \/ PollDeadline
    \/ PollSleep

\* The thread that runs the executor is scheduled; the remote side owes
\* nothing.
ExecutorStep == ExecCommand \/ PollReady \/ PollDeadline \/ PollSleep

PollSpec == PollInit /\ [][PollNext]_vars /\ WF_vars(ExecutorStep)

(***************************************************************************)
(* Vocabulary of the properties.                                           *)
(***************************************************************************)
\* The kinds of the log entries of device d that carry index i, in log order.
RECURSIVE KindsAt(_, _)
KindsAt(lg, i) ==
    IF lg = <<>> THEN <<>>
    ELSE IF Head(lg)[2] = i THEN <<Head(lg)[1]>> \o KindsAt(Tail(lg), i)
    ELSE KindsAt(Tail(lg), i)

HasEntry(d, kind) == \E p \in DOMAIN log[d] : log[d][p][1] = kind

CountKind(lg, kind) == Cardinality({p \in DOMAIN lg : lg[p][1] = kind})

\* The command at index k of device d timed out.
TimedOut(d, k) == \E p \in DOMAIN log[d] : log[d][p] = <<"Timeout", k>>

\* The reconnect after a timeout returned no session.
ReconnectFailed(d) == HasEntry(d, "FailedToReconnect")

\* The initial connect_ssh returned no session.
InitialConnectFailed(d) == HasEntry(d, "FailedToConnect")

\* The first index after k that carries a command text (Len + 1 when none).
NextCommandIndex(k) ==
    IF \E j \in (k + 1)..Len(commands) : commands[j].command
    THEN CHOOSE j \in (k + 1)..Len(commands) :
            /\ commands[j].command
            /\ \A m \in (k + 1)..(j - 1) : ~commands[m].command
    ELSE Len(commands) + 1

\* Devices that hold a session that is connected and not closed.
HoldingSession == {d \in devices : open[d] # {}}

(***************************************************************************)
(* C1.  Once `run` has joined all pipelines, the progress advances sum to   *)
(* |devices| x |commands|, every device having contributed |commands|.     *)
(* The code breaks it: see C1_FailingRun.                                   *)
(***************************************************************************)
C1_ProgressReachesTotal ==
    orch = "returned" =>
        /\ completed = TotalTasks
        /\ \A d \in devices : advanced[d] = Len(commands)

(***************************************************************************)
(* C2.  Reconnect-resume: no index is issued twice on a device; the command *)
(* issued after the one at index k is the next index that carries a command *)
(* text; and when the command at k timed out, it runs on the session the    *)
(* reconnect opened (otherwise on the same session).                       *)
(***************************************************************************)
C2_ReconnectResume ==
    \A d \in devices : \A i \in DOMAIN issued[d] :
        LET k == issued[d][i][1]
            s == issued[d][i][2]
        IN  /\ \A j \in DOMAIN issued[d] : j # i => issued[d][j][1] # k
            /\ s \in 1..nsess[d]
            /\ i < Len(issued[d]) =>
                 /\ issued[d][i + 1][1] = NextCommandIndex(k)
                 /\ issued[d][i + 1][2] = IF TimedOut(d, k) THEN s + 1 ELSE s
            /\ (TimedOut(d, k) /\ pc[d] \notin {"reconnect", "reconnfailed"}) =>
                 /\ idx[d] > k
                 /\ i = Len(issued[d]) => ssh[d] = s + 1
                 /\ (i = Len(issued[d]) /\ pc[d] \in {"loop", "exec"}) => open[d] = {s + 1}

\* A command timed out, the reconnect succeeded, and a later command was issued.
C2_Witness ==
    \E d \in devices :
        /\ Len(issued[d]) >= 2
        /\ TimedOut(d, issued[d][1][1])
        /\ issued[d][2][1] > issued[d][1][1] + 1

(***************************************************************************)
(* C3.  Reconnect-exhaustion accounting: after a failed reconnect the       *)
(* timed-out unit and every later unit have each advanced progress and have *)
(* each a log entry, so the device has contributed |commands|.  The code    *)
(* breaks it: the loop is left by `break`.                                  *)
(***************************************************************************)
C3_ExhaustionAccounted ==
    \A d \in devices :
        ReconnectFailed(d) =>
            /\ advanced[d] = Len(commands)
            /\ \A i \in (idx[d] + 1)..Len(commands) : KindsAt(log[d], i) # <<>>

(***************************************************************************)
(* C4.  Once the reconnect after a timeout has failed, the device issues no *)
(* command, performs no sleep and makes no connection attempt any more.     *)
(***************************************************************************)
C4_FailedIsQuiet ==
    [][\A d \in devices :
          ReconnectFailed(d) =>
              /\ issued'[d] = issued[d]
              /\ slept'[d] = slept[d]
              /\ connects'[d] = connects[d]
              /\ nsess'[d] = nsess[d]
              /\ open'[d] = {}]_vars

\* A reconnect failed while commands were left, and the run went on to its end.
C4_Witness ==
    \E d \in devices :
        /\ ReconnectFailed(d)
        /\ idx[d] < Len(commands)
        /\ orch = "returned"

(***************************************************************************)
(* C5.  When the initial connection fails, the pipeline issues no command,  *)
(* performs no sleep, writes the connection-failure entry, advances the     *)
(* progress by |commands| in total and ends.                                *)
(***************************************************************************)
C5_InitialConnectFailure ==
    \A d \in devices :
        InitialConnectFailed(d) =>
            /\ issued[d] = <<>>
            /\ slept[d] = {}
            /\ open[d] = {}
            /\ log[d][Len(log[d])] = <<"FailedToConnect", 0>>
            /\ CountKind(log[d], "FailedToConnect") = 1
            /\ advanced[d] = Len(commands)
            /\ pc[d] = "connfailed"

\* The initial connection of a device failed in a run with commands.
C5_Witness ==
    \E d \in devices :
        /\ InitialConnectFailed(d)
        /\ Len(commands) >= 1
        /\ orch = "returned"

(***************************************************************************)
(* C6.  As claimed: after a command timeout the pipeline calls the          *)
(* underlying connect operation exactly once before it resumes or fails.    *)
(* The code calls connect_ssh, which retries: C6_SingleReconnectAttempt is  *)
(* violated.                                                                *)
(***************************************************************************)
\* Position of the last "Reconnecting" entry of a log, 0 when there is none.
LastReconnecting(lg) ==
    IF \E p \in DOMAIN lg : lg[p][1] = "Reconnecting"
    THEN CHOOSE p \in DOMAIN lg :
            /\ lg[p][1] = "Reconnecting"
            /\ \A q \in DOMAIN lg : q > p => lg[q][1] # "Reconnecting"
    ELSE 0

\* Entries of the given kind written after the last "Reconnecting" entry.
SinceReconnecting(lg, kind) ==
    Cardinality({p \in DOMAIN lg : p > LastReconnecting(lg) /\ lg[p][1] = kind})

\* ssh.connect attempts of the latest reconnect: each one logs its outcome.
ReconnectAttempts(d) ==
    IF LastReconnecting(log[d]) = 0 THEN 0
    ELSE SinceReconnecting(log[d], "ConnectError") + SinceReconnecting(log[d], "Connected")

SeqStart ==
    [pc |-> "connect", idx |-> 1, attempt |-> 0, ssh |-> 0, log |-> <<>>, issued |-> <<>>]

SeqEndOfIteration(st) ==
    [st EXCEPT !.pc = "loop",
               !.idx = @ + 1,
               !.log = IF commands[st.idx].sleep THEN Append(@, <<"Sleeping", st.idx>>) ELSE @]

SeqAnswer(st, a) ==
    IF st.pc = "exec"
    THEN CASE a = "stdout" ->
                SeqEndOfIteration([st EXCEPT !.log = Append(@, <<"Output", st.idx>>)])
           [] a = "stderr" ->
                SeqEndOfIteration([st EXCEPT !.log = Append(@, <<"Error", st.idx>>)])
           [] a = "timeout" ->
                [st EXCEPT !.pc = "reconnect", !.attempt = 0,
                           !.log = @ \o << <<"Timeout", st.idx>>, <<"Reconnecting", st.idx>> >>]
           [] OTHER ->
                [st EXCEPT !.pc = "raised", !.log = Append(@, <<"ErrorOn", 0>>)]
    ELSE IF a = "connected"
    THEN LET up == [st EXCEPT !.ssh = @ + 1, !.attempt = 0,
                              !.log = Append(@, <<"Connected", 0>>)]
         IN  IF st.pc = "connect" THEN [up EXCEPT !.pc = "loop"] ELSE SeqEndOfIteration(up)
    ELSE IF st.attempt + 1 < Retries
    THEN [st EXCEPT !.attempt = @ + 1, !.log = Append(@, <<"ConnectError", 0>>)]
    ELSE [st EXCEPT !.pc = IF st.pc = "connect" THEN "connfailed" ELSE "reconnfailed",
                    !.log = @ \o << <<"ConnectError", 0>>,
                                    <<IF st.pc = "connect" THEN "FailedToConnect"
                                      ELSE "FailedToReconnect", 0>> >>]

RECURSIVE Sequential(_, _)
Sequential(st, answers) ==
    IF st.pc = "loop"
    THEN IF st.idx > Len(commands) THEN [st EXCEPT !.pc = "completed"]
         ELSE IF commands[st.idx].command
         THEN Sequential([st EXCEPT !.pc = "exec",
                                    !.log = Append(@, <<"Executing", st.idx>>),
                                    !.issued = Append(@, <<st.idx, st.ssh>>)], answers)
         ELSE Sequential(SeqEndOfIteration(st), answers)
    ELSE IF st.pc \in {"connect", "reconnect", "exec"} /\ answers # <<>>
    THEN Sequential(SeqAnswer(st, Head(answers)), Tail(answers))
    ELSE st

C7_DeviceIsolation ==
    orch = "returned" =>
        \A d \in devices :
            LET alone == Sequential(SeqStart, inputs[d])
            IN  /\ log[d] = alone.log
                /\ issued[d] = alone.issued
                /\ pc[d] = alone.pc

\* The connection of one device failed for good and another device, which
\* met a fault of its own, completed its sequence.
C7_Witness ==
    /\ orch = "returned"
    /\ \E a, b \in devices :
          /\ a < b
          /\ pc[a] = "connfailed"
          /\ pc[b] = "completed"
          /\ HasEntry(b, "Timeout")

(***************************************************************************)
(* C8.  At most min(cap, |devices|) devices hold an open session at any     *)
(* instant, also when a pipeline ends through an unexpected exception.      *)
(* The code breaks it: a pipeline that raises never closes its session.     *)
(***************************************************************************)
C8_SessionsWithinCap ==
    Cardinality(HoldingSession) <= Min(WorkerCap, Cardinality(devices))

(***************************************************************************)
(* C9.  The pool runs at most min(cap, |devices|) pipelines at any instant; *)
(* every device gets exactly one pipeline (started once from the queue,     *)
(* never restarted, finished when `run` returns); and a device beyond the   *)
(* cap starts only after some pipeline has finished.                        *)
(***************************************************************************)
C9_WorkerPool ==
    /\ [](/\ Cardinality(Running) <= Min(WorkerCap, Cardinality(devices))
          /\ orch = "returned" => Finished = devices)
    /\ [][\A d \in devices :
            /\ (pc[d] \notin RunningPcs /\ pc'[d] \in RunningPcs) =>
                 /\ pc[d] = "queued"
                 /\ d > Min(WorkerCap, Cardinality(devices)) => Finished # {}
            /\ pc[d] \in RunningPcs \cup FinishedPcs =>
                 pc'[d] \in RunningPcs \cup FinishedPcs
            /\ pc[d] \in FinishedPcs => pc'[d] = pc[d]]_vars

\* A device beyond the cap is running on a full pool.
C9_Witness ==
    \E d \in devices :
        /\ d > WorkerCap
        /\ pc[d] \in RunningPcs
        /\ Cardinality(Running) = WorkerCap

EntriesOfUnit(i) ==
    LET post == IF commands[i].sleep THEN <<"Sleeping">> ELSE <<>>
    IN  IF commands[i].command
        THEN {<<"Executing", "Output">> \o post,
              <<"Executing", "Error">> \o post,
              <<"Executing", "Timeout", "Reconnecting">> \o post}
        ELSE {post}

HealthyScenario(d) ==
    /\ commands = <<[command |-> TRUE, sleep |-> FALSE],
                    [command |-> FALSE, sleep |-> TRUE],
                    [command |-> TRUE, sleep |-> FALSE]>>
    /\ inputs[d] = <<"connected", "stdout", "stdout">>
    /\ pc[d] = "completed"

C11_ExceptionAccounted ==
    \A d \in devices :
        (pc[d] = "raised" /\ d \in collected) =>
            /\ log[d][Len(log[d])] = <<"ErrorOn", 0>>
            /\ advanced[d] = Len(commands)

(***************************************************************************)
(* C13.  The completed-unit count never exceeds the declared total.  (It    *)
(* never decreases: every step adds a natural number to it.)  The code      *)
(* breaks the bound: see C11.                                               *)
(***************************************************************************)
C13_CompletedWithinTotal ==
    /\ completed <= TotalTasks
    /\ \A d \in devices : advanced[d] <= Len(commands)

(***************************************************************************)
(* C12.  Termination, under FairSpec: every run ends (`run` returns; for an *)
(* empty device list it ends in the pool constructor, which is C25's case), *)
(* with every pipeline in a terminal state, after at most Retries connect   *)
(* attempts for the initial connect and for each timeout, and at most       *)
(* |commands| command executions per device.                                *)
(***************************************************************************)
RunEnded == orch = "returned" \/ (devices = {} /\ orch = "crashed")

ExecutingAt(d) == {p \in DOMAIN log[d] : log[d][p][1] = "Executing"}

\* The command logged as executing at position p has its outcome logged at r.
OutcomeAt(d, p, r) ==
    /\ log[d][r][2] = log[d][p][2]
    /\ log[d][r][1] \in {"Output", "Error", "Timeout"}

C14_SequentialIssue ==
    \A d \in devices :
        /\ \A p, q \in DOMAIN log[d] :
              (p < q /\ log[d][p][2] # 0 /\ log[d][q][2] # 0) =>
                  log[d][p][2] <= log[d][q][2]
        /\ \A p, q \in ExecutingAt(d) : p < q =>
              /\ log[d][p][2] < log[d][q][2]
              /\ \E r \in (p + 1)..(q - 1) :
                    /\ OutcomeAt(d, p, r)
                    /\ log[d][r][1] = "Timeout" =>
                          \E c \in (r + 1)..(q - 1) : log[d][c] = <<"Connected", 0>>
        /\ Len(issued[d]) = Cardinality(ExecutingAt(d))
        /\ \A i \in DOMAIN issued[d] : \A j \in DOMAIN issued[d] :
              i < j => issued[d][i][1] < issued[d][j][1]
        /\ pc[d] = "exec" <=>
              /\ ExecutingAt(d) # {}
              /\ \A r \in DOMAIN log[d] :
                    ~OutcomeAt(d, CHOOSE p \in ExecutingAt(d) :
                                     \A q \in ExecutingAt(d) : q <= p, r)
              /\ pc[d] # "raised"
        /\ pc[d] = "exec" => ssh[d] \in open[d] /\ idx[d] = issued[d][Len(issued[d])][1]

\* Two devices in both orders of progress: device 1 is still at its first
\* command while device 2, which timed out and reconnected, is at its second.
C14_Witness ==
    /\ {1, 2} \subseteq devices
    /\ pc[1] = "exec" /\ idx[1] = 1
    /\ pc[2] = "exec" /\ idx[2] = 2 /\ TimedOut(2, 1)

(***************************************************************************)
(* C15.  The healthy run: when every connection succeeded, no command timed *)
(* out and none raised, each device issued every command that has a text,   *)
(* once and in sequence order, on the one session it opened; that session   *)
(* stays open while the loop runs and is closed at its end; every device    *)
(* ends completed and the progress is |devices| x |commands|.               *)
(***************************************************************************)
\* Nothing went wrong on device d so far.
Healthy(d) ==
    \A p \in DOMAIN inputs[d] : inputs[d][p] \notin {"refused", "timeout", "exception"}

\* The indexes of the units that carry a command text, in sequence order.
CommandIndexes ==
    SelectSeq([i \in 1..Len(commands) |-> i], LAMBDA i : commands[i].command)

C15_HealthyRun ==
    /\ \A d \in devices : (Healthy(d) /\ pc[d] \in {"loop", "exec"}) =>
          /\ open[d] = {1}
          /\ ssh[d] = 1
    /\ (orch = "returned" /\ \A d \in devices : Healthy(d)) =>
          /\ \A d \in devices :
                /\ pc[d] = "completed"
                /\ issued[d] = [i \in DOMAIN CommandIndexes |-> <<CommandIndexes[i], 1>>]
                /\ nsess[d] = 1
                /\ connects[d] = 1
                /\ open[d] = {}
                /\ advanced[d] = Len(commands)
          /\ completed = Cardinality(devices) * Len(commands)

\* Two healthy devices have run a sequence of a command and a unit without
\* command text to its end.
C15_Witness ==
    /\ orch = "returned"
    /\ Cardinality(devices) = 2
    /\ \A d \in devices : Healthy(d)
    /\ Len(commands) = 2
    /\ \E i, j \in 1..2 : commands[i].command /\ ~commands[j].command

(***************************************************************************)
(* C16.  A command that completes with non-empty stderr is logged as an     *)
(* error and nothing more: the step that takes the answer appends the       *)
(* "Error" entry for the command, closes no session and opens none,         *)
(* advances the device by one and leaves the pipeline in its loop at the    *)
(* next index; the command issued next runs on the same session.            *)
(***************************************************************************)
\* The step appends the answer `what` to what device d received.
Receives(d, what) == inputs'[d] = Append(inputs[d], what)

C16_StderrNotFatal ==
    /\ [][\A d \in devices : Receives(d, "stderr") =>
             /\ <<open'[d], ssh'[d], nsess'[d], connects'[d]>> =
                    <<open[d], ssh[d], nsess[d], connects[d]>>
             /\ ssh'[d] \in open'[d]
             /\ \E p \in DOMAIN log'[d] :
                   /\ p > Len(log[d])
                   /\ log'[d][p] = <<"Error", idx[d]>>
             /\ \A p \in DOMAIN log'[d] :
                   p > Len(log[d]) => log'[d][p][1] \in {"Error", "Sleeping"}
             /\ advanced'[d] = advanced[d] + 1
             /\ completed' = completed + 1
             /\ idx'[d] = idx[d] + 1
             /\ pc'[d] = "loop"]_vars
    /\ [](\A d \in devices : \A i \in DOMAIN issued[d] :
             (i < Len(issued[d])
                /\ \E p \in DOMAIN log[d] : log[d][p] = <<"Error", issued[d][i][1]>>)
             => issued[d][i + 1][2] = issued[d][i][2])

\* A command answered with stderr, and the next command was issued.
C16_Witness ==
    \E d \in devices : \E i \in DOMAIN issued[d] :
        /\ i < Len(issued[d])
        /\ \E p \in DOMAIN log[d] : log[d][p] = <<"Error", issued[d][i][1]>>

(***************************************************************************)
(* C17.  A unit without command text (sleep-only, or neither command nor    *)
(* sleep) issues nothing and leaves the session as it is, yet takes its     *)
(* place in the sequence and advances progress by exactly one: the step of  *)
(* a pipeline that stands at such a unit changes nothing of the session,    *)
(* moves to the next index and adds one unit; its only log entry is the     *)
(* "Sleeping" entry of a sleep; and no such index is ever among the issued. *)
(***************************************************************************)
\* What device d's pipeline owns.
DeviceState(d) ==
    <<pc[d], idx[d], log[d], advanced[d], issued[d], ssh[d], open[d], nsess[d],
      chan[d], slept[d], connects[d], inputs[d]>>

\* The session side of device d.
SessionState(d) == <<issued[d], ssh[d], open[d], nsess[d], chan[d], connects[d]>>

\* Device d stands at a unit without command text.
AtTextlessUnit(d) ==
    /\ pc[d] = "loop"
    /\ idx[d] <= Len(commands)
    /\ ~commands[idx[d]].command

C17_TextlessUnit ==
    /\ [][\A d \in devices :
             (AtTextlessUnit(d) /\ DeviceState(d)' # DeviceState(d)) =>
                /\ SessionState(d)' = SessionState(d)
                /\ inputs'[d] = inputs[d]
                /\ idx'[d] = idx[d] + 1
                /\ advanced'[d] = advanced[d] + 1
                /\ completed' = completed + 1
                /\ pc'[d] = "loop"
                /\ log'[d] = IF commands[idx[d]].sleep
                             THEN Append(log[d], <<"Sleeping", idx[d]>>)
                             ELSE log[d]]_vars
    /\ [](\A d \in devices : \A i \in DOMAIN issued[d] :
             commands[issued[d][i][1]].command)

\* A pipeline went through a sleep-only unit and a no-op unit and completed.
C17_Witness ==
    \E d \in devices :
        /\ pc[d] = "completed"
        /\ \E i, j \in 1..Len(commands) :
              /\ ~commands[i].command /\ commands[i].sleep
              /\ ~commands[j].command /\ ~commands[j].sleep
              /\ advanced[d] = Len(commands)

(***************************************************************************)
(* C18.  Join barrier: when `run` has returned, every pipeline that was     *)
(* submitted has ended, by return or by exception, and the exceptions were  *)
(* handled; none is unsubmitted, queued or running; `run` returns from its  *)
(* as_completed loop only, and nothing runs after it has returned.          *)
(***************************************************************************)
C18_JoinBarrier ==
    /\ [](orch = "returned" =>
            \A d \in devices :
               /\ pc[d] \in {"completed", "connfailed", "reconnfailed", "raised"}
               /\ pc[d] = "raised" => d \in collected)
    /\ [][/\ (orch # "returned" /\ orch' = "returned") =>
               (orch = "collect" /\ \A d \in devices : pc[d] \notin RunningPcs)
          /\ orch = "returned" => vars' = vars]_vars

\* `run` returned from more devices than the pool has workers, one pipeline
\* having ended by exception and one normally.
C18_Witness ==
    /\ orch = "returned"
    /\ Cardinality(devices) > WorkerCap
    /\ \E d, e \in devices : pc[d] = "raised" /\ pc[e] = "completed"

(***************************************************************************)
(* C19.  A command that timed out and whose reconnect succeeded counts as   *)
(* exactly one unit.  While the pipeline reconnects, the unit is not yet    *)
(* accounted; the step in which connect_ssh returns the new session logs    *)
(* "Connected", then the unit's "Sleeping" entry if it has a sleep, adds    *)
(* one unit and moves to the next index; the unit's own log entries are     *)
(* "Executing", "Timeout", "Reconnecting" (and "Sleeping") in that order;   *)
(* and a one-command sequence ends with progress 1 and one issued command.  *)
(***************************************************************************)
\* The log entries of a unit with a command that timed out and went on.
TimedOutUnitEntries(k) ==
    <<"Executing", "Timeout", "Reconnecting">>
        \o (IF commands[k].sleep THEN <<"Sleeping">> ELSE <<>>)

C19_TimeoutCountsOnce ==
    /\ [](\A d \in devices :
            /\ pc[d] = "reconnect" =>
                  /\ TimedOut(d, idx[d])
                  /\ advanced[d] = idx[d] - 1
                  /\ KindsAt(log[d], idx[d]) = <<"Executing", "Timeout", "Reconnecting">>
            /\ \A k \in 1..(idx[d] - 1) : TimedOut(d, k) =>
                  /\ KindsAt(log[d], k) = TimedOutUnitEntries(k)
                  /\ d \notin collected => advanced[d] = idx[d] - 1
            /\ (Len(commands) = 1 /\ TimedOut(d, 1) /\ pc[d] = "completed") =>
                  /\ advanced[d] = 1
                  /\ issued[d] = << <<1, 1>> >>
                  /\ nsess[d] = 1 + 1)
    /\ [][\A d \in devices : (pc[d] = "reconnect" /\ pc'[d] = "loop") =>
             /\ advanced'[d] = advanced[d] + 1
             /\ completed' = completed + 1
             /\ idx'[d] = idx[d] + 1
             /\ issued'[d] = issued[d]
             /\ log'[d] = (IF commands[idx[d]].sleep
                           THEN Append(Append(log[d], <<"Connected", 0>>),
                                       <<"Sleeping", idx[d]>>)
                           ELSE Append(log[d], <<"Connected", 0>>))]_vars

\* A one-command sequence whose command timed out ran to its end, and `run`
\* returned.
C19_Witness ==
    /\ orch = "returned"
    /\ Len(commands) = 1
    /\ \E d \in devices : TimedOut(d, 1) /\ pc[d] = "completed"

(***************************************************************************)
(* C20.  No session leak: a pipeline that has ended, by whatever path, has  *)
(* closed every session it opened.  The code breaks it on the exception     *)
(* path: run_commands has no `finally`, so a pipeline that a command ended  *)
(* by an exception leaves its session open (the defect of C8).              *)
(***************************************************************************)
C20_NoSessionLeak ==
    \A d \in devices : pc[d] \in FinishedPcs => open[d] = {}

(***************************************************************************)
(* C21.  Each device has at most one open session, its own (the sessions of *)
(* device d are those that d's pipeline opened, numbered 1..nsess[d]).      *)
(* While a pipeline reconnects, the session whose command timed out is      *)
(* already closed: no session of the device is open.  A command is issued   *)
(* on the pipeline's current session only, which is open at that moment;    *)
(* a session that was closed is never opened or used again.                 *)
(***************************************************************************)
C21_OneOpenSession ==
    /\ [](\A d \in devices :
            /\ Cardinality(open[d]) <= 1
            /\ open[d] \subseteq 1..nsess[d]
            /\ open[d] # {} => open[d] = {ssh[d]}
            /\ pc[d] = "reconnect" => open[d] = {}
            /\ pc[d] = "exec" => ssh[d] \in open[d])
    /\ [][\A d \in devices :
            /\ Len(issued'[d]) > Len(issued[d]) =>
                  /\ issued'[d] = Append(issued[d], <<idx[d], ssh[d]>>)
                  /\ ssh[d] \in open[d]
            /\ (pc[d] = "exec" /\ pc'[d] = "reconnect") => open'[d] = {}
            /\ \A s \in 1..nsess[d] : s \notin open[d] => s \notin open'[d]]_vars

\* After a timeout and a reconnect, a command runs on the second session,
\* the only one that is open.
C21_Witness ==
    \E d \in devices :
        /\ pc[d] = "exec"
        /\ nsess[d] > 1
        /\ open[d] = {nsess[d]}
        /\ issued[d][Len(issued[d])][2] = nsess[d]

(***************************************************************************)
(* C22.  Under PollSpec.  When the executor has raised its timeout, none of *)
(* the command's three channels is open; and a call that found the command  *)
(* complete returns both captures, decoded, and raises nothing.  The code   *)
(* keeps the first half and breaks the second: a capture that is not UTF-8  *)
(* makes decode() raise out of the executor.                                *)
(***************************************************************************)
\* The call is over.
ExecutorEnded == exe.phase \in {"returned", "raised", "timedout"}

C22_ChannelsClosedOnTimeout ==
    exe.phase = "timedout" =>
        /\ exe.stdin = "closed" /\ exe.stdout = "closed" /\ exe.stderr = "closed"
        /\ exe.result = <<"TimeoutError">>

C22_CompletionReturns ==
    (ExecutorEnded /\ exe.phase # "timedout") =>
        /\ exe.phase = "returned"
        /\ Len(exe.result) = 2

C22_ExecutorOutcome ==
    /\ C22_ChannelsClosedOnTimeout
    /\ C22_CompletionReturns

(***************************************************************************)
(* C23.  Under PollSpec.  Each poll checks completion first and the         *)
(* deadline second: the timeout is raised only by a poll that finds the     *)
(* command running and more than `timeout` seconds elapsed; a poll that     *)
(* finds the command complete reports success, whatever time has elapsed;   *)
(* a call makes at most timeout / interval + 2 polls; and a command that    *)
(* never completes is reported as timed out.  The code keeps the order of   *)
(* the checks and the bound; the success report fails through C22's defect. *)
(***************************************************************************)
C23_TimeoutOnlyPastDeadline ==
    [][(exe.phase = "poll" /\ exe'.phase = "timedout") =>
          (~exe.ready /\ exe.elapsed > exe.timeout)]_vars

C23_CompleteIsSuccess ==
    [][(exe.phase = "poll" /\ exe.ready /\ exe' # exe) =>
          (exe'.phase = "returned" /\ exe'.elapsed = exe.elapsed)]_vars

C23_FinitelyManyPolls ==
    /\ [](exe.phase # "idle" => exe.polls <= exe.timeout + 2 * PollInterval)
    /\ <>(exe.phase # "idle" /\ (exe.ready \/ exe.phase = "timedout"))
    /\ <>(exe.phase # "idle" /\ ExecutorEnded)

C23_PollOrder ==
    /\ C23_TimeoutOnlyPastDeadline
    /\ C23_CompleteIsSuccess
    /\ C23_FinitelyManyPolls

(***************************************************************************)
(* C24.  connect_ssh makes at most Retries attempts per call, returns at    *)
(* the first success without a further attempt or backoff, returns no       *)
(* session after exactly Retries failed attempts, logs one error per failed *)
(* attempt, and backs off between attempts only: a call that gave up has    *)
(* backed off one time less than it failed.  The code breaks the last part: *)
(* time.sleep(5) also runs after the last failed attempt.                   *)
(***************************************************************************)
\* Calls of connect_ssh of device d that returned no session.
CallsGivenUp(d) ==
    CountKind(log[d], "FailedToConnect") + CountKind(log[d], "FailedToReconnect")

C24_AttemptsAndErrors ==
    \A d \in devices :
        /\ attempt[d] < Retries
        /\ connects[d] = CountKind(log[d], "Connected") + CountKind(log[d], "ConnectError")
        /\ CountKind(log[d], "Connected") = nsess[d]
        /\ CountKind(log[d], "ConnectError") >= Retries * CallsGivenUp(d) + attempt[d]
        /\ pc[d] = "connfailed" =>
              /\ connects[d] = Retries
              /\ CountKind(log[d], "ConnectError") = Retries

C24_BackoffBetweenAttempts ==
    \A d \in devices :
        backoffs[d] = CountKind(log[d], "ConnectError") - CallsGivenUp(d)

C24_ConnectRetries ==
    /\ C24_AttemptsAndErrors
    /\ C24_BackoffBetweenAttempts

(***************************************************************************)
(* C25.  For an empty device list `run` creates its pool, submits nothing   *)
(* and returns with progress 0 of 0, raising nothing.  The code breaks it:  *)
(* min(10, 0) = 0 workers, and ThreadPoolExecutor(max_workers=0) raises     *)
(* ValueError.                                                              *)
(***************************************************************************)
C25_EmptyFleetReturns ==
    devices = {} =>
        /\ orch # "crashed"
        /\ completed = 0
        /\ TotalTasks = 0

=============================================================================
